---- MODULE Spec2Model ----
(***************************************************************************)
(* Model of scripts/generate-dynamic-dashboard.py: the safe JSON / JSONL   *)
(* loader, the eight per-tool normalizers of SecurityDashboardGenerator    *)
(* and the aggregation of their statuses in generate_dashboard_html.       *)
(*                                                                         *)
(* JSON values are tagged records, so that values of different Python      *)
(* types can be compared:                                                  *)
(*   null  [t |-> "null"]          (Python None, also "no value")          *)
(*   bool  [t |-> "bool", b]                                               *)
(*   num   [t |-> "num",  c]       c is the number in hundredths           *)
(*   str   [t |-> "str",  s]                                               *)
(*   list  [t |-> "list", items]   items a sequence of values              *)
(*   dict  [t |-> "dict", f]       f a function from keys to values        *)
(*                                                                         *)
(* A file's text is a sequence of lines, a line a sequence of tokens: the  *)
(* brackets and the comma of a JSON array, a scalar or object literal      *)
(* written on one line (an atom, carrying its value), or a token that is   *)
(* no JSON at all (log noise).                                             *)
(***************************************************************************)
EXTENDS Integers, Sequences, FiniteSets, TLC

VARIABLES
    reports_dir,   \* the reports tree: tool directory -> directory listing
    pc,            \* position of the run inside generate_dashboard_html
    results,       \* tool -> the summary its normalizer returned
    statuses,      \* the list of the eight statuses that are voted on
    overall,       \* overall_status, overall_class, overall_message
    file_path,     \* the file handed to load_json_safely (loader runs)
    loaded,        \* what load_json_safely did with file_path
    previous       \* the tree and the result of the run before this one

vars == <<reports_dir, pc, results, statuses, overall, file_path, loaded, previous>>

(***************************************************************************)
(* Bounds of the model.                                                    *)
(***************************************************************************)
MaxLines == 3        \* lines of a file drawn for the loader
MaxFiles == 2        \* files of a directory drawn for one normalizer
MaxPassed == 142     \* passed checks of a Checkov report
MaxFailed == 61      \* failed checks of a Checkov report
MaxSkipped == 1      \* skipped checks of a Checkov report

(***************************************************************************)
(* JSON values.                                                            *)
(***************************************************************************)
Null == [t |-> "null"]
Bool(b) == [t |-> "bool", b |-> b]
Dec(c) == [t |-> "num", c |-> c]
Num(n) == Dec(n * 100)
Str(s) == [t |-> "str", s |-> s]
List(items) == [t |-> "list", items |-> items]
Dict(f) == [t |-> "dict", f |-> f]
EmptyDict == Dict(<<>>)

IsDict(v) == v.t = "dict"
IsList(v) == v.t = "list"

\* Python truthiness, as tested by "if data:" and by "if entry.get(...)".
Truthy(v) ==
    CASE v.t = "null" -> FALSE
      [] v.t = "bool" -> v.b
      [] v.t = "num"  -> v.c # 0
      [] v.t = "str"  -> v.s # ""
      [] v.t = "list" -> Len(v.items) > 0
      [] v.t = "dict" -> DOMAIN v.f # {}

\* key in d, for a dict d.
HasKey(d, k) == k \in DOMAIN d.f

\* d.get(k, default), for a dict d.
Get(d, k, default) == IF HasKey(d, k) THEN d.f[k] ELSE default

(***************************************************************************)
(* Tokens and json.loads.                                                  *)
(***************************************************************************)
LB == [k |-> "lb"]
RB == [k |-> "rb"]
Comma == [k |-> "comma"]
Junk == [k |-> "junk"]
Atom(v) == [k |-> "atom", v |-> v]

ParseFail == [ok |-> FALSE, v |-> Null, next |-> 0]

RECURSIVE ParseValue(_, _), ParseElems(_, _, _)

\* One JSON value starting at token i: an atom, "[]", or "[v, v, ...]".
ParseValue(toks, i) ==
    IF i > Len(toks) THEN ParseFail
    ELSE IF toks[i].k = "atom" THEN [ok |-> TRUE, v |-> toks[i].v, next |-> i + 1]
    ELSE IF toks[i].k = "lb" THEN
        IF i + 1 <= Len(toks) /\ toks[i + 1].k = "rb"
        THEN [ok |-> TRUE, v |-> List(<<>>), next |-> i + 2]
        ELSE ParseElems(toks, i + 1, <<>>)
    ELSE ParseFail

\* The elements of an array after its "[" (or after a comma), up to its "]".
ParseElems(toks, i, acc) ==
    LET r == ParseValue(toks, i) IN
    IF ~r.ok \/ r.next > Len(toks) THEN ParseFail
    ELSE IF toks[r.next].k = "comma" THEN ParseElems(toks, r.next + 1, Append(acc, r.v))
    ELSE IF toks[r.next].k = "rb"
         THEN [ok |-> TRUE, v |-> List(Append(acc, r.v)), next |-> r.next + 1]
    ELSE ParseFail

\* json.loads(text): the whole text is one JSON document, or JSONDecodeError.
json_loads(toks) ==
    LET r == ParseValue(toks, 1) IN
    IF r.ok /\ r.next = Len(toks) + 1 THEN [ok |-> TRUE, v |-> r.v]
    ELSE [ok |-> FALSE, v |-> Null]

RECURSIVE Flatten(_)
\* The text of several lines as one token stream (a newline is JSON whitespace).
Flatten(lines) ==
    IF lines = <<>> THEN <<>> ELSE Head(lines) \o Flatten(Tail(lines))

RECURSIVE StripLeading(_)
StripLeading(lines) ==
    IF lines # <<>> /\ Head(lines) = <<>> THEN StripLeading(Tail(lines)) ELSE lines

RECURSIVE StripTrailing(_)
StripTrailing(lines) ==
    IF lines # <<>> /\ lines[Len(lines)] = <<>>
    THEN StripTrailing(SubSeq(lines, 1, Len(lines) - 1))
    ELSE lines

\* f.read().strip(): blank lines at both ends are dropped.
Strip(lines) == StripTrailing(StripLeading(lines))

RECURSIVE ParseLines(_)
\* The JSONL loop: the values of the non-blank lines that parse, in order.
ParseLines(lines) ==
    IF lines = <<>> THEN <<>>
    ELSE LET line == Head(lines)
             r == json_loads(line)
         IN  IF line # <<>> /\ r.ok
             THEN <<r.v>> \o ParseLines(Tail(lines))
             ELSE ParseLines(Tail(lines))

(***************************************************************************)
(* Files.  access is what open()/read() does: "ok"; "missing" (the entry   *)
(* is listed but cannot be found when opened: FileNotFoundError); "denied" *)
(* (PermissionError); "undecodable" (bytes that are no text:               *)
(* UnicodeDecodeError).  prefix and ext are what the glob patterns test.   *)
(***************************************************************************)
File(prefix, ext, access, lines) ==
    [prefix |-> prefix, ext |-> ext, access |-> access, lines |-> lines]

\* The exceptions open()/read() raise that "except (FileNotFoundError)" lets through.
OpenRaises(f) == f.access \in {"denied", "undecodable"}

Returned(v) == [raised |-> FALSE, v |-> v]
Raised == [raised |-> TRUE, v |-> Null]

\* Mutant: "return results" without the "if results else None".
load_json_safely_EmptyList(f) ==
    IF f.access = "missing" THEN Returned(Null)
    ELSE IF OpenRaises(f) THEN Raised
    ELSE LET content == Strip(f.lines)
             whole == json_loads(Flatten(content))
         IN  IF whole.ok THEN Returned(whole.v) ELSE Returned(List(ParseLines(content)))

\* load_json_safely(file_path): the value returned, or the exception raised.
load_json_safely(f) ==
    IF f.access = "missing" THEN Returned(Null)
    ELSE IF OpenRaises(f) THEN Raised
    ELSE LET content == Strip(f.lines)
             whole == json_loads(Flatten(content))
             jsonl == ParseLines(content)
         IN  IF whole.ok THEN Returned(whole.v)
             ELSE IF jsonl # <<>> THEN Returned(List(jsonl))
             ELSE Returned(Null)

(***************************************************************************)
(* Directories and Python helpers shared by the normalizers.               *)
(***************************************************************************)
AbsentDir == [exists |-> FALSE, files |-> <<>>]
Dir(files) == [exists |-> TRUE, files |-> files]

MatchesGlob(f, prefix, ext) == f.ext = ext /\ (prefix = "" \/ f.prefix = prefix)

\* dir.glob(pattern), in the order the directory listing enumerates the files.
Glob(dir, prefix, ext) == SelectSeq(dir.files, LAMBDA f : MatchesGlob(f, prefix, ext))

\* len(v) works on lists, strings and dicts and raises TypeError otherwise.
Sized(v) == v.t \in {"list", "str", "dict"}

PyLen(v) ==
    CASE v.t = "list" -> Len(v.items)
      [] v.t = "str"  -> Len(v.s)
      [] v.t = "dict" -> Cardinality(DOMAIN v.f)

RECURSIVE KeySeq(_)
KeySeq(keys) ==
    IF keys = {} THEN <<>>
    ELSE LET k == CHOOSE x \in keys : TRUE IN <<Str(k)>> \o KeySeq(keys \ {k})

\* "for x in v": the elements of a list, the characters of a string (strings
\* themselves), the keys of a dict.
Iter(v) ==
    CASE v.t = "list" -> v.items
      [] v.t = "str"  -> [i \in 1..Len(v.s) |-> Str("c")]
      [] v.t = "dict" -> KeySeq(DOMAIN v.f)

\* Lists and dicts are unhashable: set.add(v) and "v in dict" raise TypeError.
Hashable(v) == v.t \notin {"list", "dict"}

\* Mutant: the severity is looked up as it is spelled.
Lower_Missing(s) == s

\* str.lower() on the severity spellings the scanners emit.
Lower(s) ==
    CASE s \in {"CRITICAL", "Critical"} -> "critical"
      [] s \in {"HIGH", "High"}         -> "high"
      [] s \in {"MEDIUM", "Medium"}     -> "medium"
      [] s \in {"LOW", "Low"}           -> "low"
      [] s \in {"UNKNOWN", "Unknown"}   -> "unknown"
      [] OTHER                          -> s

(***************************************************************************)
(* analyze_trufflehog_data                                                 *)
(***************************************************************************)
\* Mutant: the SourceMetadata test is left out.
IsFinding_NoSource(entry) ==
    IsDict(entry) /\ HasKey(entry, "DetectorName") /\ HasKey(entry, "Raw")

\* The test that tells a secret finding from a log entry.
IsFinding(entry) ==
    /\ IsDict(entry)
    /\ HasKey(entry, "DetectorName")
    /\ HasKey(entry, "Raw")
    /\ HasKey(entry, "SourceMetadata")

TrufflehogStatus(verified, unverified) ==
    IF verified > 0 THEN "critical" ELSE IF unverified > 0 THEN "warning" ELSE "good"

TrufflehogZero ==
    [raised |-> FALSE, total |-> 0, verified |-> 0, unverified |-> 0, detector_types |-> {}]

\* The body run for one recognized finding.
CountFinding(entry, acc) ==
    LET isVerified == Truthy(Get(entry, "Verified", Bool(FALSE)))
        detector == Get(entry, "DetectorName", Str("Unknown"))
    IN  IF ~Hashable(detector) THEN [acc EXCEPT !.raised = TRUE]
        ELSE [acc EXCEPT !.total = @ + 1,
                         !.verified = IF isVerified THEN @ + 1 ELSE @,
                         !.unverified = IF isVerified THEN @ ELSE @ + 1,
                         !.detector_types = @ \cup {detector}]

RECURSIVE TrufflehogEntries(_, _)
TrufflehogEntries(entries, acc) ==
    IF entries = <<>> \/ acc.raised THEN acc
    ELSE TrufflehogEntries(Tail(entries),
            IF IsFinding(Head(entries)) THEN CountFinding(Head(entries), acc) ELSE acc)

TrufflehogData(data, acc) ==
    IF ~Truthy(data) THEN acc
    ELSE IF IsList(data) THEN TrufflehogEntries(data.items, acc)
    ELSE IF IsFinding(data) THEN CountFinding(data, acc)
    ELSE acc

RECURSIVE TrufflehogFiles(_, _)
TrufflehogFiles(files, acc) ==
    IF files = <<>> \/ acc.raised THEN acc
    ELSE LET l == load_json_safely(Head(files)) IN
         TrufflehogFiles(Tail(files),
            IF l.raised THEN [acc EXCEPT !.raised = TRUE] ELSE TrufflehogData(l.v, acc))

analyze_trufflehog_data(root) ==
    LET trufflehog_dir == root["trufflehog-reports"]
        acc == IF trufflehog_dir.exists
               THEN TrufflehogFiles(Glob(trufflehog_dir, "", "json"), TrufflehogZero)
               ELSE TrufflehogZero
    IN  [raised |-> acc.raised,
         total |-> acc.total,
         verified |-> acc.verified,
         unverified |-> acc.unverified,
         detector_types |-> Cardinality(acc.detector_types),
         status |-> TrufflehogStatus(acc.verified, acc.unverified)]

(***************************************************************************)
(* analyze_grype_data                                                      *)
(***************************************************************************)
SeverityStatus(critical, high) ==
    IF critical > 0 THEN "critical" ELSE IF high > 0 THEN "warning" ELSE "good"

GrypeSeverities == {"critical", "high", "medium", "low"}

GrypeZero ==
    [raised |-> FALSE, total |-> 0, severity_counts |-> [s \in GrypeSeverities |-> 0]]

RECURSIVE GrypeMatches(_, _)
GrypeMatches(matches, acc) ==
    IF matches = <<>> \/ acc.raised THEN acc
    ELSE LET match == Head(matches)
             vulnerability == Get(match, "vulnerability", EmptyDict)
             raw == Get(vulnerability, "severity", Str("unknown"))
             severity == Lower(raw.s)
         IN  IF ~IsDict(match) \/ ~IsDict(vulnerability) \/ raw.t # "str"
             THEN [acc EXCEPT !.raised = TRUE]
             ELSE GrypeMatches(Tail(matches),
                    IF severity \in GrypeSeverities
                    THEN [acc EXCEPT !.severity_counts[severity] = @ + 1]
                    ELSE acc)

GrypeData(data, acc) ==
    IF ~Truthy(data) THEN acc
    ELSE IF ~IsDict(data) THEN [acc EXCEPT !.raised = TRUE]
    ELSE LET matches == Get(data, "matches", List(<<>>)) IN
         IF ~Sized(matches) THEN [acc EXCEPT !.raised = TRUE]
         ELSE GrypeMatches(Iter(matches), [acc EXCEPT !.total = @ + PyLen(matches)])

RECURSIVE GrypeFiles(_, _)
GrypeFiles(files, acc) ==
    IF files = <<>> \/ acc.raised THEN acc
    ELSE LET l == load_json_safely(Head(files)) IN
         GrypeFiles(Tail(files),
            IF l.raised THEN [acc EXCEPT !.raised = TRUE] ELSE GrypeData(l.v, acc))

analyze_grype_data(root) ==
    LET grype_dir == root["grype-reports"]
        acc == IF grype_dir.exists
               THEN GrypeFiles(Glob(grype_dir, "grype-", "json"), GrypeZero)
               ELSE GrypeZero
        sbom_files == IF grype_dir.exists THEN Len(Glob(grype_dir, "sbom-", "json")) ELSE 0
    IN  [raised |-> acc.raised,
         total |-> acc.total,
         severity_counts |-> acc.severity_counts,
         sbom_files |-> sbom_files,
         status |-> SeverityStatus(acc.severity_counts["critical"],
                                   acc.severity_counts["high"])]

(***************************************************************************)
(* analyze_trivy_data                                                      *)
(***************************************************************************)
TrivySeverities == {"CRITICAL", "HIGH", "MEDIUM", "LOW"}

TrivyZero ==
    [raised |-> FALSE, total |-> 0, scanned_targets |-> 0,
     severity_counts |-> [s \in TrivySeverities |-> 0]]

\* Mutant: the severity is upper-cased before the lookup, as Grype's is
\* lower-cased.
TrivySeverityKey_Upper(severity) ==
    IF severity.t # "str" THEN severity
    ELSE CASE severity.s \in {"Critical", "critical"} -> Str("CRITICAL")
           [] severity.s \in {"High", "high"}         -> Str("HIGH")
           [] severity.s \in {"Medium", "medium"}     -> Str("MEDIUM")
           [] severity.s \in {"Low", "low"}           -> Str("LOW")
           [] OTHER                                   -> severity

\* The key looked up in severity_counts: the Severity value as it is.
TrivySeverityKey(severity) == severity

\* "if severity in severity_counts": only a string can equal one of the keys.
IsTrivySeverity(severity) == severity.t = "str" /\ severity.s \in TrivySeverities

RECURSIVE TrivyVulns(_, _)
TrivyVulns(vulns, acc) ==
    IF vulns = <<>> \/ acc.raised THEN acc
    ELSE LET vuln == Head(vulns)
             severity == TrivySeverityKey(Get(vuln, "Severity", Str("UNKNOWN")))
         IN  IF ~IsDict(vuln) \/ ~Hashable(severity)
             THEN [acc EXCEPT !.raised = TRUE]
             ELSE TrivyVulns(Tail(vulns),
                    IF IsTrivySeverity(severity)
                    THEN [acc EXCEPT !.severity_counts[severity.s] = @ + 1]
                    ELSE acc)

RECURSIVE TrivyResults(_, _)
TrivyResults(rs, acc) ==
    IF rs = <<>> \/ acc.raised THEN acc
    ELSE LET result == Head(rs)
             vulnerabilities == Get(result, "Vulnerabilities", List(<<>>))
         IN  IF ~IsDict(result) \/ ~Sized(vulnerabilities)
             THEN [acc EXCEPT !.raised = TRUE]
             ELSE TrivyResults(Tail(rs),
                    TrivyVulns(Iter(vulnerabilities),
                               [acc EXCEPT !.total = @ + PyLen(vulnerabilities)]))

TrivyData(data, acc) ==
    IF ~Truthy(data) THEN acc
    ELSE IF ~IsDict(data) THEN [acc EXCEPT !.raised = TRUE]
    ELSE LET rs == Get(data, "Results", List(<<>>)) IN
         IF ~Sized(rs) THEN [acc EXCEPT !.raised = TRUE]
         ELSE TrivyResults(Iter(rs), [acc EXCEPT !.scanned_targets = @ + 1])

RECURSIVE TrivyFiles(_, _)
TrivyFiles(files, acc) ==
    IF files = <<>> \/ acc.raised THEN acc
    ELSE LET l == load_json_safely(Head(files)) IN
         TrivyFiles(Tail(files),
            IF l.raised THEN [acc EXCEPT !.raised = TRUE] ELSE TrivyData(l.v, acc))

analyze_trivy_data(root) ==
    LET trivy_dir == root["trivy-reports"]
        acc == IF trivy_dir.exists
               THEN TrivyFiles(Glob(trivy_dir, "trivy-", "json"), TrivyZero)
               ELSE TrivyZero
    IN  [raised |-> acc.raised,
         total |-> acc.total,
         severity_counts |-> acc.severity_counts,
         scanned_targets |-> acc.scanned_targets,
         status |-> SeverityStatus(acc.severity_counts["CRITICAL"],
                                   acc.severity_counts["HIGH"])]

(***************************************************************************)
(* analyze_checkov_data                                                    *)
(***************************************************************************)
\* num / den rounded to the nearest integer, ties to the even one (den > 0).
RoundHalfEven(num, den) ==
    LET q == num \div den
        r == num % den
    IN  IF 2 * r < den THEN q
        ELSE IF 2 * r > den THEN q + 1
        ELSE IF q % 2 = 0 THEN q ELSE q + 1

\* round(pass_rate, 1), in tenths of a percent.
PassRateTenths(passed, total) ==
    IF total > 0 THEN RoundHalfEven(1000 * passed, total) ELSE 0

\* Mutant: the thresholds are applied to the rounded pass rate.
CheckovStatus_FromRounded(passed, total) ==
    IF PassRateTenths(passed, total) < 700 THEN "critical"
    ELSE IF PassRateTenths(passed, total) < 900 THEN "warning"
    ELSE "good"

\* The threshold rule on the unrounded pass_rate = passed / total * 100 (0 when
\* total is 0).  The comparisons are exact: a quotient that is not exactly 70 or
\* 90 is further from it than the error of the floating-point division.
CheckovStatus(passed, total) ==
    IF total = 0 \/ 100 * passed < 70 * total THEN "critical"
    ELSE IF 100 * passed < 90 * total THEN "warning"
    ELSE "good"

CheckovZero == [raised |-> FALSE, passed |-> 0, failed |-> 0, skipped |-> 0]

CheckovData(data, acc) ==
    IF ~Truthy(data) THEN acc
    ELSE IF ~IsDict(data) THEN [acc EXCEPT !.raised = TRUE]
    ELSE LET res == Get(data, "results", EmptyDict) IN
         IF ~IsDict(res) THEN [acc EXCEPT !.raised = TRUE]
         ELSE LET p == Get(res, "passed_checks", List(<<>>))
                  f == Get(res, "failed_checks", List(<<>>))
                  k == Get(res, "skipped_checks", List(<<>>))
              IN  IF ~Sized(p) \/ ~Sized(f) \/ ~Sized(k)
                  THEN [acc EXCEPT !.raised = TRUE]
                  ELSE [acc EXCEPT !.passed = @ + PyLen(p),
                                   !.failed = @ + PyLen(f),
                                   !.skipped = @ + PyLen(k)]

RECURSIVE CheckovFiles_FirstOnly(_, _)
\* Mutant: the loop stops at the first file that yields a value.
CheckovFiles_FirstOnly(files, acc) ==
    IF files = <<>> \/ acc.raised THEN acc
    ELSE LET l == load_json_safely(Head(files)) IN
         IF l.raised THEN [acc EXCEPT !.raised = TRUE]
         ELSE IF Truthy(l.v) THEN CheckovData(l.v, acc)
         ELSE CheckovFiles_FirstOnly(Tail(files), acc)

RECURSIVE CheckovFiles(_, _)
CheckovFiles(files, acc) ==
    IF files = <<>> \/ acc.raised THEN acc
    ELSE LET l == load_json_safely(Head(files)) IN
         CheckovFiles(Tail(files),
            IF l.raised THEN [acc EXCEPT !.raised = TRUE] ELSE CheckovData(l.v, acc))

analyze_checkov_data(root) ==
    LET checkov_dir == root["checkov-reports"]
        acc == IF checkov_dir.exists
               THEN CheckovFiles(Glob(checkov_dir, "", "json"), CheckovZero)
               ELSE CheckovZero
        total_checks == acc.passed + acc.failed + acc.skipped
    IN  [raised |-> acc.raised,
         passed |-> acc.passed,
         failed |-> acc.failed,
         skipped |-> acc.skipped,
         pass_rate |-> PassRateTenths(acc.passed, total_checks),
         status |-> CheckovStatus(acc.passed, total_checks)]

(***************************************************************************)
(* analyze_xeol_data                                                       *)
(***************************************************************************)
XeolStatus(eol_packages) == IF eol_packages > 0 THEN "warning" ELSE "good"

XeolZero == [raised |-> FALSE, eol_packages |-> 0]

\* Mutant: a file's matches replace the count instead of adding to it.
XeolData_Overwrite(data, acc) ==
    IF ~Truthy(data) THEN acc
    ELSE IF ~IsDict(data) THEN [acc EXCEPT !.raised = TRUE]
    ELSE LET matches == Get(data, "matches", List(<<>>)) IN
         IF ~Sized(matches) THEN [acc EXCEPT !.raised = TRUE]
         ELSE [acc EXCEPT !.eol_packages = PyLen(matches)]

XeolData(data, acc) ==
    IF ~Truthy(data) THEN acc
    ELSE IF ~IsDict(data) THEN [acc EXCEPT !.raised = TRUE]
    ELSE LET matches == Get(data, "matches", List(<<>>)) IN
         IF ~Sized(matches) THEN [acc EXCEPT !.raised = TRUE]
         ELSE [acc EXCEPT !.eol_packages = @ + PyLen(matches)]

RECURSIVE XeolFiles(_, _)
XeolFiles(files, acc) ==
    IF files = <<>> \/ acc.raised THEN acc
    ELSE LET l == load_json_safely(Head(files)) IN
         XeolFiles(Tail(files),
            IF l.raised THEN [acc EXCEPT !.raised = TRUE] ELSE XeolData(l.v, acc))

analyze_xeol_data(root) ==
    LET xeol_dir == root["xeol-reports"]
        acc == IF xeol_dir.exists
               THEN XeolFiles(Glob(xeol_dir, "", "json"), XeolZero)
               ELSE XeolZero
    IN  [raised |-> acc.raised,
         eol_packages |-> acc.eol_packages,
         status |-> XeolStatus(acc.eol_packages)]

(***************************************************************************)
(* analyze_sonarqube_data                                                  *)
(***************************************************************************)
NA == Str("N/A")

\* The string f"{x:.1f}%", kept as its number of tenths.
Pct(tenths) == [t |-> "pct", tenths |-> tenths]

\* x formatted with one decimal, for x given in hundredths.
Format1(c) == RoundHalfEven(c, 10)

\* The strings float() accepts, with their values in hundredths.
FloatStrings == {"95.0", "85.3", "62.5"}
FloatOf(s) == CASE s = "95.0" -> 9500 [] s = "85.3" -> 8530 [] s = "62.5" -> 6250

\* The strings that hold a key as a substring: the key itself and this text.
StrContains(hay, needle) ==
    hay = needle \/ (hay = "test_results and coverage" /\ needle \in {"test_results", "coverage"})

\* "key in v" raises TypeError unless v is a dict, a list or a string.
CanContain(v) == v.t \in {"dict", "list", "str"}

In(key, v) ==
    CASE v.t = "dict" -> HasKey(v, key)
      [] v.t = "list" -> \E i \in 1..Len(v.items) : v.items[i] = Str(key)
      [] v.t = "str"  -> StrContains(v.s, key)

\* Numbers (and booleans, which are integers) are what ":.1f" formats.
IsNumber(v) == v.t \in {"num", "bool"}
Centis(v) == IF v.t = "bool" THEN (IF v.b THEN 100 ELSE 0) ELSE v.c

\* float(v) works on numbers and on numeric strings.
CanFloat(v) == IsNumber(v) \/ (v.t = "str" /\ v.s \in FloatStrings)
Float(v) == IF v.t = "str" THEN FloatOf(v.s) ELSE Centis(v)

SonarZero ==
    [raised |-> FALSE, coverage |-> NA, tests |-> NA, issues |-> Num(0), passed_tests |-> NA]

RaiseIn(acc) == [acc EXCEPT !.raised = TRUE]

\* The custom format: data['test_results'] and data['coverage'].
SonarCustom(data, acc) ==
    IF ~IsDict(data) THEN RaiseIn(acc)
    ELSE LET test_results == data.f["test_results"]
             coverage_data == data.f["coverage"]
         IN  IF ~IsDict(coverage_data)
                \/ ~IsNumber(Get(coverage_data, "statement_coverage", Num(0)))
                \/ ~IsDict(test_results)
             THEN RaiseIn(acc)
             ELSE [acc EXCEPT
                    !.coverage = Pct(Format1(Centis(Get(coverage_data, "statement_coverage", Num(0))))),
                    !.tests = Get(test_results, "total_tests", NA),
                    !.passed_tests = Get(test_results, "passed_tests", NA),
                    !.issues = Get(test_results, "failed_tests", Num(0))]

RECURSIVE SonarMeasures(_, _)
SonarMeasures(measures, acc) ==
    IF measures = <<>> \/ acc.raised THEN acc
    ELSE LET measure == Head(measures) IN
         IF ~IsDict(measure) THEN RaiseIn(acc)
         ELSE LET metric == Get(measure, "metric", Null) IN
              SonarMeasures(Tail(measures),
                IF metric = Str("coverage")
                THEN (IF CanFloat(Get(measure, "value", Num(0)))
                      THEN [acc EXCEPT !.coverage =
                                Pct(Format1(Float(Get(measure, "value", Num(0)))))]
                      ELSE RaiseIn(acc))
                ELSE IF metric = Str("tests")
                THEN [acc EXCEPT !.tests = Get(measure, "value", NA)]
                ELSE acc)

\* The body of "if data:" for one loaded file.
SonarData(data, acc) ==
    IF ~CanContain(data) THEN RaiseIn(acc)
    ELSE IF In("test_results", data) /\ In("coverage", data) THEN SonarCustom(data, acc)
    ELSE IF In("component", data) THEN
        IF ~IsDict(data) \/ ~CanContain(data.f["component"]) THEN RaiseIn(acc)
        ELSE IF In("measures", data.f["component"]) THEN
            IF ~IsDict(data.f["component"]) \/ ~Sized(data.f["component"].f["measures"])
            THEN RaiseIn(acc)
            ELSE SonarMeasures(Iter(data.f["component"].f["measures"]), acc)
        ELSE IF In("issues", data) THEN
            (IF Sized(data.f["issues"])
             THEN [acc EXCEPT !.issues = Num(PyLen(data.f["issues"]))]
             ELSE RaiseIn(acc))
        ELSE acc
    ELSE IF In("issues", data) THEN
        (IF IsDict(data) /\ Sized(data.f["issues"])
         THEN [acc EXCEPT !.issues = Num(PyLen(data.f["issues"]))]
         ELSE RaiseIn(acc))
    ELSE acc

RECURSIVE SonarFiles(_, _)
\* The loop over one directory: it stops ("break") at the first file whose
\* loaded value is truthy.
SonarFiles(files, acc) ==
    IF files = <<>> \/ acc.raised THEN acc
    ELSE LET l == load_json_safely(Head(files)) IN
         IF l.raised THEN RaiseIn(acc)
         ELSE IF Truthy(l.v) THEN SonarData(l.v, acc)
         ELSE SonarFiles(Tail(files), acc)

RECURSIVE SonarDirs(_, _)
\* The loop over the candidate directories: it stops once coverage is set.
SonarDirs(dirs, acc) ==
    IF dirs = <<>> \/ acc.raised THEN acc
    ELSE LET sonarqube_dir == Head(dirs)
             after == IF sonarqube_dir.exists
                      THEN SonarFiles(Glob(sonarqube_dir, "", "json"), acc)
                      ELSE acc
         IN  IF after.raised \/ after.coverage # NA THEN after
             ELSE SonarDirs(Tail(dirs), after)

\* Mutant: the thresholds are exclusive.
SonarStatus_Exclusive(coverage) ==
    IF coverage # NA
    THEN (IF coverage.tenths > 900 THEN "good"
          ELSE IF coverage.tenths > 700 THEN "warning"
          ELSE "critical")
    ELSE "warning"

SonarStatus(coverage) ==
    IF coverage # NA
    THEN (IF coverage.tenths >= 900 THEN "good"
          ELSE IF coverage.tenths >= 700 THEN "warning"
          ELSE "critical")
    ELSE "warning"

analyze_sonarqube_data(root) ==
    LET sonarqube_dirs == <<root["sonar-reports"],
                            root["security-reports/raw-data/SonarQube"]>>
        acc == SonarDirs(sonarqube_dirs, SonarZero)
    IN  [raised |-> acc.raised,
         coverage |-> acc.coverage,
         tests |-> acc.tests,
         passed_tests |-> acc.passed_tests,
         issues |-> acc.issues,
         has_data |-> acc.coverage # NA,
         status |-> SonarStatus(acc.coverage)]

(***************************************************************************)
(* analyze_clamav_data                                                     *)
(***************************************************************************)
\* A piece of log text.
Text(s) == [k |-> "text", s |-> s]

\* "marker in log_content"
LogContains(f, marker) ==
    \E i \in 1..Len(f.lines) : \E j \in 1..Len(f.lines[i]) : f.lines[i][j] = Text(marker)

FilesScannedApprox == 299

ClamavZero ==
    [raised |-> FALSE, threats_found |-> 0, files_scanned |-> NA]

\* The body of "if data:" for the first JSON file that yields a value.
ClamavData(data, acc) ==
    IF ~IsDict(data) THEN acc
    ELSE IF ~IsNumber(Get(data, "threats_found", Num(0))) THEN RaiseIn(acc)
    ELSE [acc EXCEPT
            !.threats_found = @ + Centis(Get(data, "threats_found", Num(0))),
            !.files_scanned = IF HasKey(data, "files_scanned")
                              THEN data.f["files_scanned"] ELSE @]

RECURSIVE ClamavFiles(_, _)
ClamavFiles(files, acc) ==
    IF files = <<>> \/ acc.raised THEN acc
    ELSE LET l == load_json_safely(Head(files)) IN
         IF l.raised THEN RaiseIn(acc)
         ELSE IF Truthy(l.v) THEN ClamavData(l.v, acc)
         ELSE ClamavFiles(Tail(files), acc)

\* Mutant: any first log file reads as a clean scan.
LogIsClean_AnyLog(log_files) ==
    /\ log_files # <<>>
    /\ Head(log_files).access = "ok"

\* The log fallback: the first log file reads as a clean scan.
LogIsClean(log_files) ==
    /\ log_files # <<>>
    /\ Head(log_files).access = "ok"
    /\ \/ LogContains(Head(log_files), "Infected files: 0")
       \/ ~LogContains(Head(log_files), "FOUND")

ClamavStatus(threats_found, has_json_data) ==
    IF threats_found > 0 THEN "critical"
    ELSE IF has_json_data THEN "good" ELSE "warning"

analyze_clamav_data(root) ==
    LET clamav_dir == root["clamav-reports"]
        json_files == IF clamav_dir.exists THEN Glob(clamav_dir, "", "json") ELSE <<>>
        acc == ClamavFiles(json_files, ClamavZero)
        fallback == json_files = <<>> /\ clamav_dir.exists
                    /\ LogIsClean(Glob(clamav_dir, "", "log"))
        has_json_data == json_files # <<>> \/ fallback
        threats_found == IF fallback THEN 0 ELSE acc.threats_found
        files_scanned == IF fallback THEN Num(FilesScannedApprox) ELSE acc.files_scanned
    IN  [raised |-> acc.raised,
         threats |-> IF has_json_data THEN Dec(threats_found) ELSE NA,
         files_scanned |-> IF has_json_data THEN files_scanned ELSE NA,
         has_data |-> has_json_data,
         status |-> ClamavStatus(threats_found, has_json_data)]

(***************************************************************************)
(* analyze_helm_data                                                       *)
(***************************************************************************)
CheckMark == Str("valid")
CrossMark == Str("invalid")

HelmZero == [raised |-> FALSE, resources |-> NA, valid |-> NA]

HelmData(data, acc) ==
    IF ~IsDict(data) THEN acc
    ELSE [acc EXCEPT
            !.resources = Get(data, "resource_count", NA),
            !.valid = IF Truthy(Get(data, "valid", Bool(TRUE))) THEN CheckMark ELSE CrossMark]

RECURSIVE HelmFiles(_, _)
HelmFiles(files, acc) ==
    IF files = <<>> \/ acc.raised THEN acc
    ELSE LET l == load_json_safely(Head(files)) IN
         IF l.raised THEN RaiseIn(acc)
         ELSE IF Truthy(l.v) THEN HelmData(l.v, acc)
         ELSE HelmFiles(Tail(files), acc)

\* Mutant: the status follows the absence of the directory.
HelmStatus_Inverted(exists) == IF exists THEN "warning" ELSE "good"

HelmStatus(exists) == IF exists THEN "good" ELSE "warning"

analyze_helm_data(root) ==
    LET helm_dir == root["helm-reports"]
        acc == IF helm_dir.exists
               THEN HelmFiles(Glob(helm_dir, "", "json"), HelmZero)
               ELSE HelmZero
    IN  [raised |-> acc.raised,
         resources |-> acc.resources,
         valid |-> acc.valid,
         has_data |-> helm_dir.exists,
         status |-> HelmStatus(helm_dir.exists)]

(***************************************************************************)
(* generate_dashboard_html: the eight analyses, then the overall status.   *)
(***************************************************************************)
Tools == {"sonarqube", "trufflehog", "clamav", "helm", "checkov", "trivy", "grype", "xeol"}

\* The tools whose summary carries a has_data flag.
FlagTools == {"sonarqube", "clamav", "helm"}

Unset == [status |-> "unset"]

\* The dict a normalizer returns.
Summary(r) == [k \in DOMAIN r \ {"raised"} |-> r[k]]

\* Mutant: the has_data test inverted.
StatusIfData_Inverted(summary) == IF summary.has_data THEN "good" ELSE summary.status

\* summary['status'] if summary['has_data'] else 'good'
StatusIfData(summary) == IF summary.has_data THEN summary.status ELSE "good"

\* Mutant: every summary's own status is voted on, has_data or not.
Statuses_NoFlagCheck(res) ==
    <<res["sonarqube"].status, res["trufflehog"].status, res["clamav"].status,
      res["helm"].status, res["checkov"].status, res["trivy"].status,
      res["grype"].status, res["xeol"].status>>

\* The list "statuses".
Statuses(res) ==
    <<StatusIfData(res["sonarqube"]),
      res["trufflehog"].status,
      StatusIfData(res["clamav"]),
      StatusIfData(res["helm"]),
      res["checkov"].status,
      res["trivy"].status,
      res["grype"].status,
      res["xeol"].status>>

Contains(seq, x) == \E i \in 1..Len(seq) : seq[i] = x

Level(status, class, message) ==
    [overall_status |-> status, overall_class |-> class, overall_message |-> message]

OverallCritical ==
    Level("CRITICAL", "status-critical",
          "Critical security issues detected. Immediate action required.")
OverallWarning ==
    Level("WARNING", "status-warning",
          "Security issues detected. Review and remediation recommended.")
OverallGood ==
    Level("GOOD", "status-good",
          "No critical security issues detected. Continue monitoring.")
NoOverall == Level("unset", "unset", "unset")

\* Mutant: 'warning' is tested before 'critical'.
OverallOf_WarningFirst(sts) ==
    IF Contains(sts, "warning") THEN OverallWarning
    ELSE IF Contains(sts, "critical") THEN OverallCritical
    ELSE OverallGood

\* Mutant: the last status of the list decides alone.
OverallOf_LastOnly(sts) ==
    IF sts[Len(sts)] = "critical" THEN OverallCritical
    ELSE IF sts[Len(sts)] = "warning" THEN OverallWarning
    ELSE OverallGood

\* The if / elif / else on the list of statuses.
OverallOf(sts) ==
    IF Contains(sts, "critical") THEN OverallCritical
    ELSE IF Contains(sts, "warning") THEN OverallWarning
    ELSE OverallGood

\* One analysis: its summary is kept and the run moves on, or the exception it
\* raised ends the run.
Step(tool, r, next) ==
    IF r.raised
    THEN pc' = "aborted" /\ UNCHANGED results
    ELSE pc' = next /\ results' = [results EXCEPT ![tool] = Summary(r)]

AnalyzeSonarqube ==
    /\ pc = "sonarqube"
    /\ Step("sonarqube", analyze_sonarqube_data(reports_dir), "trufflehog")
    /\ UNCHANGED <<reports_dir, statuses, overall, file_path, loaded, previous>>

AnalyzeTrufflehog ==
    /\ pc = "trufflehog"
    /\ Step("trufflehog", analyze_trufflehog_data(reports_dir), "clamav")
    /\ UNCHANGED <<reports_dir, statuses, overall, file_path, loaded, previous>>

AnalyzeClamav ==
    /\ pc = "clamav"
    /\ Step("clamav", analyze_clamav_data(reports_dir), "helm")
    /\ UNCHANGED <<reports_dir, statuses, overall, file_path, loaded, previous>>

AnalyzeHelm ==
    /\ pc = "helm"
    /\ Step("helm", analyze_helm_data(reports_dir), "checkov")
    /\ UNCHANGED <<reports_dir, statuses, overall, file_path, loaded, previous>>

AnalyzeCheckov ==
    /\ pc = "checkov"
    /\ Step("checkov", analyze_checkov_data(reports_dir), "trivy")
    /\ UNCHANGED <<reports_dir, statuses, overall, file_path, loaded, previous>>

AnalyzeTrivy ==
    /\ pc = "trivy"
    /\ Step("trivy", analyze_trivy_data(reports_dir), "grype")
    /\ UNCHANGED <<reports_dir, statuses, overall, file_path, loaded, previous>>

AnalyzeGrype ==
    /\ pc = "grype"
    /\ Step("grype", analyze_grype_data(reports_dir), "xeol")
    /\ UNCHANGED <<reports_dir, statuses, overall, file_path, loaded, previous>>

AnalyzeXeol ==
    /\ pc = "xeol"
    /\ Step("xeol", analyze_xeol_data(reports_dir), "overall")
    /\ UNCHANGED <<reports_dir, statuses, overall, file_path, loaded, previous>>

\* "Determine overall status"
DetermineOverall ==
    /\ pc = "overall"
    /\ statuses' = Statuses(results)
    /\ overall' = OverallOf(Statuses(results))
    /\ pc' = "done"
    /\ UNCHANGED <<reports_dir, results, file_path, loaded, previous>>

Next ==
    \/ AnalyzeSonarqube
    \/ AnalyzeTrufflehog
    \/ AnalyzeClamav
    \/ AnalyzeHelm
    \/ AnalyzeCheckov
    \/ AnalyzeTrivy
    \/ AnalyzeGrype
    \/ AnalyzeXeol
    \/ DetermineOverall

\* A call of load_json_safely on its own.
LoadFile ==
    /\ pc = "load"
    /\ loaded' = load_json_safely(file_path)
    /\ pc' = "loaded"
    /\ UNCHANGED <<reports_dir, results, statuses, overall, file_path, previous>>

(***************************************************************************)
(* Report files the scanners write, and other files found in their place.  *)
(***************************************************************************)
\* A file holding one JSON document on one line.
JsonFile(prefix, v) == File(prefix, "json", "ok", <<<<Atom(v)>>>>)
\* A file holding one document or log line per line.
LinesFile(prefix, lines) == File(prefix, "json", "ok", lines)
\* Files that cannot be read.
MissingFile(prefix) == File(prefix, "json", "missing", <<>>)
DeniedFile(prefix) == File(prefix, "json", "denied", <<>>)
\* An empty file, and a file of log noise only.
EmptyFile(prefix) == File(prefix, "json", "ok", <<>>)
NoiseFile(prefix) == File(prefix, "json", "ok", <<<<Junk>>, <<Junk, Junk>>>>)

\* n list elements of no particular content.
Items(n) == [i \in 1..n |-> EmptyDict]

\* The sequences over S of length at most n.
SeqsUpTo(S, n) == UNION {[1..k -> S] : k \in 0..n}

\* The directories made of at most MaxFiles of the given files, and no directory.
DirsOf(files) == {AbsentDir} \cup {Dir(fs) : fs \in SeqsUpTo(files, MaxFiles)}

\* TruffleHog: findings, and the log entries it writes between them.
Finding(detector, verified) ==
    Dict([DetectorName |-> Str(detector), Raw |-> Str("secret"),
          SourceMetadata |-> EmptyDict, Verified |-> Bool(verified)])
FindingNoFlag ==
    Dict([DetectorName |-> Str("Slack"), Raw |-> Str("secret"), SourceMetadata |-> EmptyDict])
PartialFinding == Dict([DetectorName |-> Str("AWS"), Raw |-> Str("secret")])
UnhashableFinding ==
    Dict([DetectorName |-> List(<<Str("AWS")>>), Raw |-> Str("secret"),
          SourceMetadata |-> EmptyDict])
LogEntry == Dict([level |-> Str("info"), msg |-> Str("scanning")])

\* Grype: a report with one match per given severity.
GrypeMatch(severity) == Dict([vulnerability |-> Dict([severity |-> Str(severity)])])
GrypeReport(severities) ==
    Dict([matches |-> List([i \in 1..Len(severities) |-> GrypeMatch(severities[i])])])

\* Trivy: a report with one result per given list of severities.
Vuln(severity) == Dict([VulnerabilityID |-> Str("CVE"), Severity |-> Str(severity)])
TrivyResult(severities) ==
    Dict([Target |-> Str("image"),
          Vulnerabilities |-> List([i \in 1..Len(severities) |-> Vuln(severities[i])])])
TrivyReport(targets) ==
    Dict([Results |-> List([i \in 1..Len(targets) |-> TrivyResult(targets[i])])])

\* Checkov: a report with the given numbers of passed, failed and skipped checks.
CheckovReport(p, f, k) ==
    Dict([results |-> Dict([passed_checks |-> List(Items(p)),
                            failed_checks |-> List(Items(f)),
                            skipped_checks |-> List(Items(k))])])

\* Xeol: a report with n matches.
XeolReport(n) == Dict([matches |-> List(Items(n))])

\* SonarQube: the three shapes, with the coverage given in hundredths / as text.
SonarCustomReport(c) ==
    Dict([test_results |-> Dict([total_tests |-> Num(10), passed_tests |-> Num(9),
                                 failed_tests |-> Num(1)]),
          coverage |-> Dict([statement_coverage |-> Dec(c)])])
SonarMeasuresReport(text) ==
    Dict([component |-> Dict([measures |->
            List(<<Dict([metric |-> Str("tests"), value |-> Str("12")]),
                   Dict([metric |-> Str("coverage"), value |-> Str(text)])>>)])])
SonarIssuesReport(n) == Dict([issues |-> List(Items(n))])

\* ClamAV: a JSON summary, and scan logs.
ClamavReport(threats) == Dict([threats_found |-> Num(threats), files_scanned |-> Num(120)])
LogFile(lines) == File("", "log", "ok", lines)
CleanLog == LogFile(<<<<Text("Scanned files: 120")>>, <<Text("Infected files: 0")>>>>)
InfectedLog == LogFile(<<<<Text("eicar.com:"), Text("FOUND")>>, <<Text("Infected files: 1")>>>>)

\* Helm: a validation result.
HelmReport(valid) == Dict([resource_count |-> Num(12), valid |-> Bool(valid)])

(***************************************************************************)
(* The reports trees of the full run: for each tool a directory that is    *)
(* absent, holds a report of each status the tool can give, or holds a     *)
(* file the tool's normalizer does not expect.                             *)
(***************************************************************************)
SonarChoices ==
    {AbsentDir,
     Dir(<<JsonFile("", SonarCustomReport(9500))>>),
     Dir(<<JsonFile("", SonarCustomReport(8530))>>),
     Dir(<<JsonFile("", SonarCustomReport(6250))>>),
     Dir(<<JsonFile("", SonarIssuesReport(2))>>)}
SonarRawChoices ==
    {AbsentDir, Dir(<<NoiseFile(""), JsonFile("", SonarMeasuresReport("85.3"))>>)}
TrufflehogChoices ==
    {AbsentDir,
     Dir(<<JsonFile("", Finding("AWS", TRUE))>>),
     Dir(<<LinesFile("", <<<<Atom(LogEntry)>>, <<Atom(Finding("Github", FALSE))>>>>)>>),
     Dir(<<DeniedFile("")>>)}
ClamavChoices ==
    {AbsentDir,
     Dir(<<JsonFile("", ClamavReport(0))>>),
     Dir(<<JsonFile("", ClamavReport(2))>>),
     Dir(<<InfectedLog>>)}
HelmChoices == {AbsentDir, Dir(<<JsonFile("", HelmReport(FALSE))>>)}
CheckovChoices ==
    {AbsentDir,
     Dir(<<JsonFile("", CheckovReport(8, 2, 0))>>),
     Dir(<<JsonFile("", CheckovReport(10, 0, 0))>>)}
TrivyChoices ==
    {AbsentDir,
     Dir(<<JsonFile("trivy-", TrivyReport(<<<<"HIGH", "LOW">>>>))>>),
     Dir(<<JsonFile("trivy-", TrivyReport(<<<<"CRITICAL">>>>))>>)}
GrypeChoices ==
    {AbsentDir,
     Dir(<<JsonFile("grype-", GrypeReport(<<"High">>)), JsonFile("sbom-", EmptyDict)>>),
     Dir(<<JsonFile("grype-", GrypeReport(<<"Critical", "low">>))>>),
     Dir(<<LinesFile("grype-", <<<<Atom(GrypeReport(<<>>))>>, <<Atom(GrypeReport(<<"low">>))>>>>)>>)}
XeolChoices == {AbsentDir, Dir(<<JsonFile("", XeolReport(1))>>)}

Tree(sonar, raw, trufflehog, clamav, helm, checkov, trivy, grype, xeol) ==
    [d \in {"sonar-reports", "security-reports/raw-data/SonarQube", "trufflehog-reports",
            "clamav-reports", "helm-reports", "checkov-reports", "trivy-reports",
            "grype-reports", "xeol-reports"} |->
        CASE d = "sonar-reports" -> sonar
          [] d = "security-reports/raw-data/SonarQube" -> raw
          [] d = "trufflehog-reports" -> trufflehog
          [] d = "clamav-reports" -> clamav
          [] d = "helm-reports" -> helm
          [] d = "checkov-reports" -> checkov
          [] d = "trivy-reports" -> trivy
          [] d = "grype-reports" -> grype
          [] d = "xeol-reports" -> xeol]

NoFile == File("", "json", "missing", <<>>)

\* No run came before this one.
NoRun == [reports_dir |-> <<>>, results |-> <<>>, overall |-> NoOverall]

\* The state at the start of generate_dashboard_html.
Start ==
    /\ pc = "sonarqube"
    /\ results = [tool \in Tools |-> Unset]
    /\ statuses = <<>>
    /\ overall = NoOverall
    /\ file_path = NoFile
    /\ loaded = Returned(Null)
    /\ previous = NoRun

Init ==
    /\ \E sonar \in SonarChoices, raw \in SonarRawChoices, trufflehog \in TrufflehogChoices,
          clamav \in ClamavChoices, helm \in HelmChoices, checkov \in CheckovChoices,
          trivy \in TrivyChoices, grype \in GrypeChoices, xeol \in XeolChoices :
            reports_dir = Tree(sonar, raw, trufflehog, clamav, helm, checkov, trivy, grype, xeol)
    /\ Start

Spec == Init /\ [][Next]_vars

(***************************************************************************)
(* The hypothetical step of the escalation property: after a run, one      *)
(* tool's status is replaced by 'critical', every other field of every     *)
(* summary kept, and the overall status is determined again.               *)
(***************************************************************************)
ReplaceStatus ==
    /\ pc = "done"
    /\ \E tool \in Tools :
          /\ results' = [results EXCEPT ![tool] = [@ EXCEPT !["status"] = "critical"]]
          /\ statuses' = Statuses(results')
          /\ overall' = OverallOf(Statuses(results'))
    /\ pc' = "replaced"
    /\ UNCHANGED <<reports_dir, file_path, loaded, previous>>

EscalateNext == Next \/ ReplaceStatus

EscalateSpec == Init /\ [][EscalateNext]_vars

(***************************************************************************)
(* Properties of the aggregation.                                          *)
(***************************************************************************)
\* The status a tool contributes according to the specification: 'good' for a
\* tool with a has_data flag that is false, its own status otherwise.
EffectiveStatus(res, tool) ==
    IF tool \in FlagTools /\ ~res[tool].has_data THEN "good" ELSE res[tool].status

EffectiveSet(res) == {EffectiveStatus(res, tool) : tool \in Tools}

\* C1: in every result of a run, a summary with status 'critical' makes the
\* overall status CRITICAL whatever the other summaries and their has_data
\* flags are, and with no 'warning' and no 'critical' summary it is GOOD.
C1_CriticalForcesCritical ==
    pc = "done" =>
        /\ (\E tool \in Tools : results[tool].status = "critical")
              => overall.overall_status = "CRITICAL"
        /\ (\A tool \in Tools : results[tool].status \notin {"warning", "critical"})
              => overall.overall_status = "GOOD"

\* C1 witness: a finished run with a critical summary beside a summary whose
\* has_data flag is false.
C1_Witness ==
    /\ pc = "done"
    /\ \E tool \in Tools : results[tool].status = "critical"
    /\ \E tool \in FlagTools : ~results[tool].has_data

\* C2: the overall status follows from the set of the eight effective statuses
\* by strict precedence (critical, then warning, then good), with the fixed
\* message of its level; being a function of the set, it depends neither on
\* the order nor on the multiplicity of the statuses.
C2_StrictPrecedence ==
    pc = "done" =>
        LET S == EffectiveSet(results) IN
        /\ overall.overall_status =
              IF "critical" \in S THEN "CRITICAL"
              ELSE IF "warning" \in S THEN "WARNING" ELSE "GOOD"
        /\ overall.overall_message =
              IF "critical" \in S
              THEN "Critical security issues detected. Immediate action required."
              ELSE IF "warning" \in S
              THEN "Security issues detected. Review and remediation recommended."
              ELSE "No critical security issues detected. Continue monitoring."

\* C2 witness: a finished run in which both 'critical' and 'warning' are voted.
C2_Witness ==
    /\ pc = "done"
    /\ {"critical", "warning"} \subseteq EffectiveSet(results)

\* C3 as stated: whatever tool's status is replaced by 'critical', has_data
\* flags kept, the overall status determined again is CRITICAL.
C3_ReplaceGivesCritical ==
    pc = "replaced" => overall.overall_status = "CRITICAL"

Rank(level) ==
    CASE level.overall_status = "GOOD" -> 0
      [] level.overall_status = "WARNING" -> 1
      [] level.overall_status = "CRITICAL" -> 2

\* C3 amended: replacing by 'critical' the status of a tool that has no
\* has_data flag, or whose has_data is true, gives CRITICAL; replacing that of
\* a tool whose has_data is false leaves the overall status as it was; the
\* overall status is never downgraded.
C3_Escalation ==
    [][\A tool \in Tools :
          (/\ pc = "done" /\ pc' = "replaced"
           /\ results' = [results EXCEPT ![tool] = [@ EXCEPT !["status"] = "critical"]])
          => /\ IF tool \in FlagTools /\ ~results[tool].has_data
                THEN overall' = overall
                ELSE overall'.overall_status = "CRITICAL"
             /\ Rank(overall') >= Rank(overall)]_vars

\* C3 witness: a replacement has moved the overall status from GOOD or WARNING
\* to CRITICAL (the replaced tool's own status is the only critical one).
C3_Witness ==
    /\ pc = "replaced"
    /\ overall.overall_status = "CRITICAL"
    /\ Cardinality({tool \in Tools : results[tool].status = "critical"}) = 1

\* C4: the three tools with a has_data flag enter the vote as 'good' when the
\* flag is false and with their own status when it is true; the five others
\* always enter their own status.
C4_EffectiveStatuses ==
    pc = "done" =>
        /\ Len(statuses) = 8
        /\ statuses[1] = (IF results["sonarqube"].has_data
                          THEN results["sonarqube"].status ELSE "good")
        /\ statuses[3] = (IF results["clamav"].has_data
                          THEN results["clamav"].status ELSE "good")
        /\ statuses[4] = (IF results["helm"].has_data
                          THEN results["helm"].status ELSE "good")
        /\ statuses[2] = results["trufflehog"].status
        /\ statuses[5] = results["checkov"].status
        /\ statuses[6] = results["trivy"].status
        /\ statuses[7] = results["grype"].status
        /\ statuses[8] = results["xeol"].status

\* C4 witness: a finished run where a flagged tool without data has a status
\* other than 'good' and another flagged tool has data.
C4_Witness ==
    /\ pc = "done"
    /\ \E tool \in FlagTools : ~results[tool].has_data /\ results[tool].status # "good"
    /\ \E tool \in FlagTools : results[tool].has_data /\ results[tool].status # "good"

\* C5: no input condition of a tool aborts the run.
C5_NoAbort == pc # "aborted"

(***************************************************************************)
(* Runs of load_json_safely alone, on every text of at most MaxLines of    *)
(* these lines: blank, one document, noise, and pieces of an array that    *)
(* spans several lines.                                                    *)
(***************************************************************************)
One == Atom(Finding("AWS", TRUE))
Two == Atom(LogEntry)

LoaderLines ==
    {<<>>, <<One>>, <<Two>>, <<Atom(Null)>>, <<Junk>>,
     <<LB>>, <<RB>>, <<Comma>>, <<LB, One>>, <<Two, RB>>, <<One, Comma>>,
     <<LB, RB>>, <<LB, Two, RB>>}

LoaderInit ==
    /\ pc = "load"
    /\ \E access \in {"ok", "missing", "denied", "undecodable"} :
       \E lines \in SeqsUpTo(LoaderLines, MaxLines) :
          /\ access # "ok" => lines = <<>>
          /\ file_path = File("", "json", access, lines)
    /\ loaded = Returned(Null)
    /\ reports_dir = Tree(AbsentDir, AbsentDir, AbsentDir, AbsentDir, AbsentDir,
                          AbsentDir, AbsentDir, AbsentDir, AbsentDir)
    /\ results = [tool \in Tools |-> Unset]
    /\ statuses = <<>>
    /\ overall = NoOverall
    /\ previous = NoRun

LoaderNext == LoadFile

LoaderSpec == LoaderInit /\ [][LoaderNext]_vars

\* C6: load_json_safely raises nothing, whatever goes wrong opening or reading
\* the file.
C6_NeverRaises == pc = "loaded" => ~loaded.raised

\* The text of the file is not one JSON document.
NotOneDocument(f) == ~json_loads(Flatten(f.lines)).ok

\* The non-empty lines of the file that are JSON documents, in their order.
ValidLines(f) == SelectSeq(f.lines, LAMBDA line : line # <<>> /\ json_loads(line).ok)

\* C7: for a text that is not one JSON document, the loader returns the values
\* of the non-empty lines that parse, in their order, and raises nothing; when
\* no line parses it returns None, never an empty list.
C7_JsonLines ==
    (pc = "loaded" /\ file_path.access = "ok" /\ NotOneDocument(file_path)) =>
        LET valid == ValidLines(file_path) IN
        /\ ~loaded.raised
        /\ loaded.v # List(<<>>)
        /\ IF valid = <<>>
           THEN loaded.v = Null
           ELSE loaded.v = List([i \in 1..Len(valid) |-> json_loads(valid[i]).v])

\* C7 witness: a text with lines that parse around a line that does not, loaded
\* as the list of the two values in their order.
C7_Witness ==
    /\ pc = "loaded"
    /\ file_path.access = "ok"
    /\ file_path.lines = <<<<One>>, <<Junk>>, <<Two>>>>
    /\ loaded = Returned(List(<<Finding("AWS", TRUE), LogEntry>>))

(***************************************************************************)
(* Runs over a tree in which one tool's directory is drawn from a richer   *)
(* set and no other directory exists.                                      *)
(***************************************************************************)
EmptyTree ==
    Tree(AbsentDir, AbsentDir, AbsentDir, AbsentDir, AbsentDir,
         AbsentDir, AbsentDir, AbsentDir, AbsentDir)

InitWith(name, dirs) ==
    /\ \E d \in dirs : reports_dir = [EmptyTree EXCEPT ![name] = d]
    /\ Start

\* What a directory's glob yields as loaded values, for the files that load.
LoadedValue(f) == load_json_safely(f).v

(***************************************************************************)
(* Secret scan.                                                            *)
(***************************************************************************)
TrufflehogSamples ==
    {JsonFile("", Finding("AWS", TRUE)),
     LinesFile("", <<<<Atom(LogEntry)>>, <<Atom(Finding("Github", FALSE))>>, <<Junk>>,
                     <<Atom(FindingNoFlag)>>>>),
     LinesFile("", <<<<LB>>, <<Atom(Finding("AWS", TRUE)), Comma>>,
                     <<Atom(Num(5)), Comma, Atom(PartialFinding)>>, <<RB>>>>),
     JsonFile("", Dict([DetectorName |-> Str("Slack"), Raw |-> Str("secret"),
                        SourceMetadata |-> EmptyDict, Verified |-> Null])),
     JsonFile("", LogEntry),
     EmptyFile(""),
     MissingFile(""),
     DeniedFile(""),
     JsonFile("", UnhashableFinding),
     File("", "log", "ok", <<<<Atom(Finding("AWS", TRUE))>>>>)}

SecretsInit == InitWith("trufflehog-reports", DirsOf(TrufflehogSamples))

SecretsSpec == SecretsInit /\ [][Next]_vars

\* The entries of a file: its top-level object, or the elements of its
\* top-level list.
EntriesOf(f) ==
    LET v == LoadedValue(f) IN
    IF ~Truthy(v) THEN <<>> ELSE IF v.t = "list" THEN v.items ELSE <<v>>

SecretEntries ==
    LET files == Glob(reports_dir["trufflehog-reports"], "", "json") IN
    Flatten([i \in 1..Len(files) |-> EntriesOf(files[i])])

Recognized(e) ==
    e.t = "dict" /\ {"DetectorName", "Raw", "SourceMetadata"} \subseteq DOMAIN e.f

VerifiedTrue(e) == "Verified" \in DOMAIN e.f /\ e.f["Verified"] = Bool(TRUE)

\* C8: 'total' counts the entries that are objects with DetectorName, Raw and
\* SourceMetadata; each is counted as verified when its Verified field is true
\* and as unverified otherwise; the status is critical / warning / good by
\* verified > 0 / unverified > 0 / neither.
C8_SecretCounts ==
    results["trufflehog"] # Unset =>
        LET r == results["trufflehog"]
            all == SecretEntries
            found == {i \in 1..Len(all) : Recognized(all[i])}
        IN  /\ r.total = Cardinality(found)
            /\ r.verified = Cardinality({i \in found : VerifiedTrue(all[i])})
            /\ r.unverified = Cardinality({i \in found : ~VerifiedTrue(all[i])})
            /\ r.total = r.verified + r.unverified
            /\ r.status = (IF r.verified > 0 THEN "critical"
                           ELSE IF r.unverified > 0 THEN "warning" ELSE "good")

\* C8 witness: a summary over two files with verified and unverified findings
\* beside entries that are no findings.
C8_Witness ==
    /\ results["trufflehog"] # Unset
    /\ results["trufflehog"].verified = 1
    /\ results["trufflehog"].unverified = 2
    /\ Len(SecretEntries) > 3
    /\ Len(Glob(reports_dir["trufflehog-reports"], "", "json")) = 2

(***************************************************************************)
(* IaC scan.                                                               *)
(***************************************************************************)
CheckovSamples ==
    {JsonFile("", CheckovReport(8, 2, 0)),
     JsonFile("", CheckovReport(1, 0, 1)),
     JsonFile("", Dict([summary |-> EmptyDict])),
     EmptyFile(""),
     MissingFile(""),
     LinesFile("", <<<<Atom(CheckovReport(1, 0, 0))>>, <<Atom(CheckovReport(0, 1, 0))>>>>)}

CheckovInit ==
    InitWith("checkov-reports",
             DirsOf(CheckovSamples) \cup
             {Dir(<<JsonFile("", CheckovReport(p, f, k))>>) :
                 p \in 0..MaxPassed, f \in 0..MaxFailed, k \in 0..MaxSkipped})

CheckovSpec == CheckovInit /\ [][Next]_vars

\* The length of one check list of a loaded report (0 for a file without value).
ChecksIn(f, list) ==
    LET v == LoadedValue(f) IN
    IF ~Truthy(v) \/ "results" \notin DOMAIN v.f \/ list \notin DOMAIN v.f["results"].f
    THEN 0
    ELSE Len(v.f["results"].f[list].items)

RECURSIVE SumChecks(_, _)
SumChecks(files, list) ==
    IF files = <<>> THEN 0 ELSE ChecksIn(Head(files), list) + SumChecks(Tail(files), list)

CheckovCountsAreSums ==
    LET r == results["checkov"]
        files == Glob(reports_dir["checkov-reports"], "", "json")
    IN  /\ r.passed = SumChecks(files, "passed_checks")
        /\ r.failed = SumChecks(files, "failed_checks")
        /\ r.skipped = SumChecks(files, "skipped_checks")

\* C9 as stated: the status follows the threshold rule applied to the reported
\* pass_rate (rounded to one decimal).
C9_StatusFromReportedRate ==
    results["checkov"] # Unset =>
        LET r == results["checkov"] IN
        r.status = (IF r.pass_rate < 700 THEN "critical"
                    ELSE IF r.pass_rate < 900 THEN "warning" ELSE "good")

\* C9 amended: the counts are the sums over all files; the reported pass_rate
\* is passed / total x 100 (0 for no checks) rounded to one decimal; the status
\* is critical / warning / good by the unrounded rate being < 70 / < 90 / not,
\* so that a reported 70.0 or 90.0 can go with the status below it.
C9_PassRate ==
    results["checkov"] # Unset =>
        LET r == results["checkov"]
            total == r.passed + r.failed + r.skipped
        IN  /\ CheckovCountsAreSums
            /\ total = 0 => r.pass_rate = 0
            /\ total > 0 =>
                  /\ 2 * (r.pass_rate * total - 1000 * r.passed) <= total
                  /\ 2 * (1000 * r.passed - r.pass_rate * total) <= total
            /\ r.status = (IF total = 0 \/ 100 * r.passed < 70 * total THEN "critical"
                           ELSE IF 100 * r.passed < 90 * total THEN "warning"
                           ELSE "good")
            /\ r.pass_rate < 700 => r.status = "critical"
            /\ r.pass_rate >= 900 => r.status \in {"good", "warning"}

\* C9 witness: 142 of 203 checks passed is 69.95..., reported as 70.0 with
\* status critical.
C9_Witness ==
    /\ results["checkov"] # Unset
    /\ results["checkov"].passed = 142
    /\ results["checkov"].failed + results["checkov"].skipped = 61
    /\ results["checkov"].pass_rate = 700
    /\ results["checkov"].status = "critical"

(***************************************************************************)
(* Container scan.                                                         *)
(***************************************************************************)
TrivySamples ==
    {JsonFile("trivy-", TrivyReport(<<<<"HIGH", "LOW">>>>)),
     JsonFile("trivy-", TrivyReport(<<<<"CRITICAL">>, <<"High", "UNKNOWN", "MEDIUM">>>>)),
     JsonFile("trivy-", Dict([Results |-> List(<<Dict([Target |-> Str("image")]),
            Dict([Vulnerabilities |-> List(<<Dict([VulnerabilityID |-> Str("CVE")])>>)])>>)])),
     JsonFile("trivy-", Dict([SchemaVersion |-> Num(2)])),
     JsonFile("trivy-", EmptyDict),
     JsonFile("", TrivyReport(<<<<"CRITICAL">>>>)),
     MissingFile("trivy-"),
     NoiseFile("trivy-"),
     JsonFile("trivy-", Dict([Results |-> Null])),
     LinesFile("trivy-", <<<<Atom(TrivyReport(<<<<"LOW">>>>))>>, <<Atom(EmptyDict)>>>>)}

TrivyInit == InitWith("trivy-reports", DirsOf(TrivySamples))

TrivySpec == TrivyInit /\ [][Next]_vars

TrivyFilesListed == Glob(reports_dir["trivy-reports"], "trivy-", "json")

\* The vulnerabilities of one entry of Results, of one file, of all files.
VulnsOfResult(result) ==
    IF "Vulnerabilities" \in DOMAIN result.f THEN result.f["Vulnerabilities"].items ELSE <<>>

VulnsOfFile(f) ==
    LET v == LoadedValue(f) IN
    IF ~Truthy(v) \/ "Results" \notin DOMAIN v.f THEN <<>>
    ELSE Flatten([i \in 1..Len(v.f["Results"].items) |-> VulnsOfResult(v.f["Results"].items[i])])

AllVulns == Flatten([i \in 1..Len(TrivyFilesListed) |-> VulnsOfFile(TrivyFilesListed[i])])

HasSeverity(vuln, name) == "Severity" \in DOMAIN vuln.f /\ vuln.f["Severity"] = Str(name)

\* C10 as stated: scanned_targets is the number of files that yielded a value.
C10_TargetsAreFilesWithValue ==
    results["trivy"] # Unset =>
        results["trivy"].scanned_targets =
            Cardinality({i \in 1..Len(TrivyFilesListed) : LoadedValue(TrivyFilesListed[i]) # Null})

\* C10 amended: total is the number of vulnerabilities of all entries of Results
\* of all loaded files; severity_counts counts those whose Severity is exactly
\* CRITICAL, HIGH, MEDIUM or LOW (the others count in total only);
\* scanned_targets is the number of files whose loaded value is a non-empty
\* object (a file holding {} is not counted); the status is critical / warning
\* / good by CRITICAL > 0 / HIGH > 0 / neither.
C10_ContainerCounts ==
    results["trivy"] # Unset =>
        LET r == results["trivy"]
            all == AllVulns
            hist == r.severity_counts
        IN  /\ r.total = Len(all)
            /\ DOMAIN hist = {"CRITICAL", "HIGH", "MEDIUM", "LOW"}
            /\ \A name \in DOMAIN hist :
                  hist[name] = Cardinality({i \in 1..Len(all) : HasSeverity(all[i], name)})
            /\ hist["CRITICAL"] + hist["HIGH"] + hist["MEDIUM"] + hist["LOW"] <= r.total
            /\ r.scanned_targets =
                  Cardinality({i \in 1..Len(TrivyFilesListed) :
                                  LET v == LoadedValue(TrivyFilesListed[i]) IN
                                  v.t = "dict" /\ DOMAIN v.f # {}})
            /\ r.status = (IF hist["CRITICAL"] > 0 THEN "critical"
                           ELSE IF hist["HIGH"] > 0 THEN "warning" ELSE "good")

\* C10 witness: two files, six vulnerabilities of which three carry one of the
\* four severities: HIGH and LOW in one file, CRITICAL and MEDIUM beside "High"
\* and UNKNOWN in the other.
C10_Witness ==
    /\ results["trivy"] # Unset
    /\ results["trivy"].total = 6
    /\ results["trivy"].scanned_targets = 2
    /\ results["trivy"].severity_counts =
          [s \in TrivySeverities |-> 1]

(***************************************************************************)
(* SBOM vulnerability scan.                                                *)
(***************************************************************************)
GrypeSamples ==
    {JsonFile("grype-", GrypeReport(<<"High">>)),
     JsonFile("grype-", GrypeReport(<<"Critical", "low", "MEDIUM", "Negligible">>)),
     JsonFile("grype-", Dict([matches |-> List(<<Dict([artifact |-> Str("openssl")]),
                                                  GrypeMatch("Unknown")>>)])),
     JsonFile("grype-", Dict([descriptor |-> Str("grype")])),
     JsonFile("", GrypeReport(<<"Critical">>)),
     NoiseFile("grype-"),
     MissingFile("grype-"),
     JsonFile("sbom-", Dict([artifacts |-> List(<<>>)])),
     DeniedFile("sbom-"),
     LinesFile("grype-", <<<<Atom(GrypeReport(<<"low">>))>>, <<Atom(GrypeReport(<<>>))>>>>)}

GrypeInit == InitWith("grype-reports", DirsOf(GrypeSamples))

GrypeSpec == GrypeInit /\ [][Next]_vars

GrypeFilesListed == Glob(reports_dir["grype-reports"], "grype-", "json")

\* The matches of one file, of all grype files.
MatchesOfFile(f) ==
    LET v == LoadedValue(f) IN
    IF ~Truthy(v) \/ "matches" \notin DOMAIN v.f THEN <<>> ELSE v.f["matches"].items

AllMatches == Flatten([i \in 1..Len(GrypeFilesListed) |-> MatchesOfFile(GrypeFilesListed[i])])

\* The spellings of a severity name that differ from it in letter case only.
Spellings(name) ==
    CASE name = "critical" -> {"critical", "Critical", "CRITICAL"}
      [] name = "high"     -> {"high", "High", "HIGH"}
      [] name = "medium"   -> {"medium", "Medium", "MEDIUM"}
      [] name = "low"      -> {"low", "Low", "LOW"}

MatchHasSeverity(match, name) ==
    /\ "vulnerability" \in DOMAIN match.f
    /\ "severity" \in DOMAIN match.f["vulnerability"].f
    /\ match.f["vulnerability"].f["severity"].s \in Spellings(name)

\* C11: total is the number of matches of all grype-*.json files; a match is
\* counted under critical / high / medium / low when its severity is that name
\* in any letter case, and under nothing otherwise; sbom_files is the number of
\* sbom-*.json files, whatever the grype files held; the status is critical /
\* warning / good by critical > 0 / high > 0 / neither.
C11_SbomCounts ==
    results["grype"] # Unset =>
        LET r == results["grype"]
            all == AllMatches
            hist == r.severity_counts
            listing == reports_dir["grype-reports"].files
        IN  /\ r.total = Len(all)
            /\ DOMAIN hist = {"critical", "high", "medium", "low"}
            /\ \A name \in DOMAIN hist :
                  hist[name] = Cardinality({i \in 1..Len(all) : MatchHasSeverity(all[i], name)})
            /\ r.sbom_files =
                  Cardinality({i \in 1..Len(listing) :
                                  listing[i].prefix = "sbom-" /\ listing[i].ext = "json"})
            /\ r.status = (IF hist["critical"] > 0 THEN "critical"
                           ELSE IF hist["high"] > 0 THEN "warning" ELSE "good")
            /\ (hist["critical"] = 0 /\ hist["high"] = 0) => r.status = "good"

\* C11 witness: a report with matches spelled "Critical", "low" and "MEDIUM" and
\* one of another severity, beside an SBOM file.
C11_Witness ==
    /\ results["grype"] # Unset
    /\ results["grype"].total = 4
    /\ results["grype"].severity_counts =
          [s \in GrypeSeverities |-> IF s = "high" THEN 0 ELSE 1]
    /\ results["grype"].sbom_files = 1
    /\ results["grype"].status = "critical"

\* C11 second case, sbom_files without any parsed grype file, is reached too.
C11_SbomOnly ==
    /\ results["grype"] # Unset
    /\ results["grype"].total = 0
    /\ results["grype"].sbom_files = 2

(***************************************************************************)
(* Antivirus scan.                                                         *)
(***************************************************************************)
ClamavSamples ==
    {JsonFile("", ClamavReport(0)),
     JsonFile("", ClamavReport(2)),
     JsonFile("", List(<<ClamavReport(2)>>)),
     JsonFile("", Dict([threats_found |-> Str("2")])),
     EmptyFile(""),
     NoiseFile(""),
     MissingFile(""),
     CleanLog,
     InfectedLog,
     LogFile(<<<<Text("eicar.com:"), Text("FOUND")>>, <<Text("Infected files: 0")>>>>),
     LogFile(<<>>),
     File("", "log", "denied", <<>>)}

ClamavInit == InitWith("clamav-reports", DirsOf(ClamavSamples))

ClamavSpec == ClamavInit /\ [][Next]_vars

ClamavJsonListed == Glob(reports_dir["clamav-reports"], "", "json")
ClamavLogsListed == Glob(reports_dir["clamav-reports"], "", "log")

\* A JSON file of the directory yielded a parsed value.
ClamavParsed ==
    \E i \in 1..Len(ClamavJsonListed) : LoadedValue(ClamavJsonListed[i]) # Null

\* The directory has no JSON file and its first log file is usable.
ClamavLogUsable ==
    /\ ClamavJsonListed = <<>>
    /\ ClamavLogsListed # <<>>
    /\ Head(ClamavLogsListed).access = "ok"
    /\ \/ LogContains(Head(ClamavLogsListed), "Infected files: 0")
       \/ ~LogContains(Head(ClamavLogsListed), "FOUND")

\* C12: the antivirus status is 'critical' if threats > 0, otherwise 'good' if
\* data was found and 'warning' if not; has_data is true exactly when data was
\* found, that is when a JSON file yielded a parsed value or, with no JSON file
\* in the directory, the first log file is usable.
C12_DataFoundMeansParsed ==
    results["clamav"] # Unset =>
        LET r == results["clamav"]
            found == ClamavParsed \/ ClamavLogUsable
        IN  /\ r.has_data = found
            /\ r.status = (IF r.threats # NA /\ r.threats.c > 0 THEN "critical"
                           ELSE IF found THEN "good" ELSE "warning")

\* C12, the case that departs from it: a directory whose only JSON files
\* yielded no value is summarised with has_data true and status 'good'.
C12_GoodWithoutData ==
    /\ results["clamav"] # Unset
    /\ ClamavJsonListed # <<>>
    /\ ~ClamavParsed
    /\ results["clamav"].has_data
    /\ results["clamav"].status = "good"

\* The first log file is read and reports an infection.
ClamavLogInfected ==
    /\ ClamavJsonListed = <<>>
    /\ ClamavLogsListed # <<>>
    /\ Head(ClamavLogsListed).access = "ok"
    /\ LogContains(Head(ClamavLogsListed), "FOUND")
    /\ ~LogContains(Head(ClamavLogsListed), "Infected files: 0")

\* A JSON file of the directory reports threats_found > 0.
ClamavJsonThreat ==
    \E i \in 1..Len(ClamavJsonListed) :
        LET v == LoadedValue(ClamavJsonListed[i]) IN
        /\ v.t = "dict"
        /\ "threats_found" \in DOMAIN v.f
        /\ v.f["threats_found"].t = "num"
        /\ v.f["threats_found"].c > 0

\* C19: with no JSON file and a first log file that contains 'FOUND' and not
\* 'Infected files: 0', the antivirus summary has has_data false, status
\* 'warning', threats and files_scanned 'N/A', and is voted as 'good'; the
\* antivirus status is 'critical' only when a JSON file reports
\* threats_found > 0, whatever the logs hold.
C19_InfectedLog ==
    results["clamav"] # Unset =>
        LET r == results["clamav"] IN
        /\ ClamavLogInfected =>
              /\ ~r.has_data
              /\ r.status = "warning"
              /\ r.threats = NA
              /\ r.files_scanned = NA
              /\ EffectiveStatus(results, "clamav") = "good"
              /\ pc = "done" => statuses[3] = "good"
        /\ r.status = "critical" => ClamavJsonThreat
        /\ ClamavJsonListed = <<>> => r.status # "critical"

\* C19 witness: a finished run over a directory whose first file is an
\* infected log, followed by a clean one.
C19_Witness ==
    /\ pc = "done"
    /\ ClamavLogInfected
    /\ Len(ClamavLogsListed) = 2
    /\ ClamavLogsListed[2] = CleanLog
    /\ results["clamav"].status = "warning"

(***************************************************************************)
(* Code-quality analysis.                                                  *)
(***************************************************************************)
SonarTestsOnlyReport ==
    Dict([component |-> Dict([measures |->
            List(<<Dict([metric |-> Str("tests"), value |-> Str("12")])>>)])])

SonarSamples ==
    {JsonFile("", SonarCustomReport(9500)),
     JsonFile("", SonarCustomReport(8996)),
     JsonFile("", SonarCustomReport(6996)),
     JsonFile("", SonarMeasuresReport("85.3")),
     JsonFile("", SonarMeasuresReport("62.5")),
     JsonFile("", SonarTestsOnlyReport),
     JsonFile("", SonarIssuesReport(2)),
     JsonFile("", Dict([projectKey |-> Str("app")])),
     LinesFile("", <<<<Atom(SonarCustomReport(9500))>>, <<Atom(SonarIssuesReport(1))>>>>),
     EmptyFile(""),
     NoiseFile(""),
     MissingFile(""),
     JsonFile("", Num(5))}

\* The second candidate directory.
SonarRawSamples ==
    {AbsentDir,
     Dir(<<>>),
     Dir(<<JsonFile("", SonarCustomReport(6250))>>),
     Dir(<<JsonFile("", SonarMeasuresReport("95.0"))>>),
     Dir(<<JsonFile("", SonarTestsOnlyReport)>>),
     Dir(<<JsonFile("", Dict([projectKey |-> Str("app")])),
           JsonFile("", SonarCustomReport(9000))>>)}

SonarInit ==
    /\ \E first \in DirsOf(SonarSamples), second \in SonarRawSamples :
          reports_dir = [EmptyTree EXCEPT !["sonar-reports"] = first,
                                          !["security-reports/raw-data/SonarQube"] = second]
    /\ Start

SonarSpec == SonarInit /\ [][Next]_vars

\* A loaded value of one of the three shapes the normalizer reads.
RecognizedShape(v) ==
    /\ v.t = "dict"
    /\ \/ {"test_results", "coverage"} \subseteq DOMAIN v.f
       \/ /\ "component" \in DOMAIN v.f
          /\ v.f["component"].t = "dict"
          /\ "measures" \in DOMAIN v.f["component"].f
       \/ "issues" \in DOMAIN v.f

RECURSIVE FirstRecognizedFile(_, _)
\* One directory read as the claim has it: files of no recognized shape are
\* passed over, the first file of a recognized shape is used.
FirstRecognizedFile(files, acc) ==
    IF files = <<>> THEN acc
    ELSE IF RecognizedShape(LoadedValue(Head(files)))
         THEN SonarData(LoadedValue(Head(files)), acc)
         ELSE FirstRecognizedFile(Tail(files), acc)

RECURSIVE FirstRecognizedDirs(_, _)
FirstRecognizedDirs(dirs, acc) ==
    IF dirs = <<>> THEN acc
    ELSE LET after == IF Head(dirs).exists
                      THEN FirstRecognizedFile(Glob(Head(dirs), "", "json"), acc)
                      ELSE acc
         IN  IF after.coverage # NA THEN after ELSE FirstRecognizedDirs(Tail(dirs), after)

\* C13: the two directories are tried in order; in a directory the first file
\* of a recognized shape is the one used, files of unrecognized shape before
\* it being passed over; the search stops at the first directory that yielded
\* a coverage value.
C13_FirstRecognizedFile ==
    results["sonarqube"] # Unset =>
        LET r == results["sonarqube"]
            claimed == FirstRecognizedDirs(<<reports_dir["sonar-reports"],
                                             reports_dir["security-reports/raw-data/SonarQube"]>>,
                                           SonarZero)
        IN  /\ r.coverage = claimed.coverage
            /\ r.tests = claimed.tests
            /\ r.passed_tests = claimed.passed_tests
            /\ r.issues = claimed.issues

\* C13, the case that departs from it: sonar-reports lists a file of
\* unrecognized shape before a report with a coverage value, and no coverage
\* is extracted.
C13_ReportMasked ==
    /\ results["sonarqube"] # Unset
    /\ reports_dir["sonar-reports"] =
          Dir(<<JsonFile("", Dict([projectKey |-> Str("app")])),
                JsonFile("", SonarCustomReport(9500))>>)
    /\ ~reports_dir["security-reports/raw-data/SonarQube"].exists
    /\ results["sonarqube"].coverage = NA

RECURSIVE FirstValue(_)
\* The value of the first file of a listing that yields a truthy value.
FirstValue(files) ==
    IF files = <<>> THEN Null
    ELSE IF Truthy(LoadedValue(Head(files))) THEN LoadedValue(Head(files))
    ELSE FirstValue(Tail(files))

NoCoverage == 0 - 1

\* The coverage a report carries, in hundredths of a percent.
RawCoverage(v) ==
    IF v.t # "dict" THEN NoCoverage
    ELSE IF {"test_results", "coverage"} \subseteq DOMAIN v.f
    THEN v.f["coverage"].f["statement_coverage"].c
    ELSE IF "component" \in DOMAIN v.f /\ "measures" \in DOMAIN v.f["component"].f
    THEN LET measures == v.f["component"].f["measures"].items
             found == {i \in 1..Len(measures) : measures[i].f["metric"] = Str("coverage")}
         IN  IF found = {} THEN NoCoverage
             ELSE FloatOf(measures[CHOOSE i \in found : \A j \in found : j <= i].f["value"].s)
    ELSE NoCoverage

\* The coverage extracted from the two directories.
ExtractedCoverage ==
    LET first == reports_dir["sonar-reports"]
        second == reports_dir["security-reports/raw-data/SonarQube"]
        a == IF first.exists THEN RawCoverage(FirstValue(Glob(first, "", "json")))
             ELSE NoCoverage
        b == IF second.exists THEN RawCoverage(FirstValue(Glob(second, "", "json")))
             ELSE NoCoverage
    IN  IF a # NoCoverage THEN a ELSE b

\* C14: has_data is true exactly when a coverage value was extracted; without
\* it the status is 'warning'; with it the reported coverage is the extracted
\* value to one decimal and the status is 'good' / 'warning' / 'critical' by
\* the reported coverage being >= 90 / >= 70 / below 70.
C14_Classification ==
    results["sonarqube"] # Unset =>
        LET r == results["sonarqube"] IN
        /\ r.has_data = (ExtractedCoverage # NoCoverage)
        /\ r.has_data = (r.coverage # NA)
        /\ ~r.has_data => r.status = "warning"
        /\ r.has_data =>
              /\ 10 * r.coverage.tenths - ExtractedCoverage <= 5
              /\ ExtractedCoverage - 10 * r.coverage.tenths <= 5
              /\ r.status = (IF r.coverage.tenths >= 900 THEN "good"
                             ELSE IF r.coverage.tenths >= 700 THEN "warning"
                             ELSE "critical")

\* C14 witness: a coverage of 89.96 taken from the second file of sonar-reports
\* is reported as 90.0% with status 'good'.
C14_Witness ==
    /\ results["sonarqube"] # Unset
    /\ ExtractedCoverage = 8996
    /\ Len(reports_dir["sonar-reports"].files) = 2
    /\ results["sonarqube"].coverage = Pct(900)
    /\ results["sonarqube"].status = "good"

\* C14, the other levels: a coverage below 70 with has_data true is critical,
\* and a run without coverage has has_data false.
C14_CriticalReached ==
    /\ results["sonarqube"] # Unset
    /\ ExtractedCoverage = 6250
    /\ results["sonarqube"].status = "critical"

(***************************************************************************)
(* Chart validation.                                                       *)
(***************************************************************************)
HelmSamples ==
    {JsonFile("", HelmReport(TRUE)),
     JsonFile("", HelmReport(FALSE)),
     JsonFile("", Dict([charts |-> List(<<>>)])),
     JsonFile("", List(<<HelmReport(FALSE)>>)),
     LinesFile("", <<<<Atom(HelmReport(TRUE))>>, <<Atom(HelmReport(FALSE))>>>>),
     EmptyFile(""),
     NoiseFile(""),
     MissingFile(""),
     DeniedFile(""),
     File("", "log", "ok", <<<<Atom(HelmReport(FALSE))>>>>)}

HelmInit == InitWith("helm-reports", DirsOf(HelmSamples))

HelmSpec == HelmInit /\ [][Next]_vars

\* C15: the chart-validation summary has status 'good' and has_data true when
\* the helm-reports directory exists, whatever it holds, and status 'warning'
\* and has_data false when it does not; either way the tool is voted 'good'.
C15_HelmByExistence ==
    results["helm"] # Unset =>
        LET r == results["helm"]
            exists == reports_dir["helm-reports"].exists
        IN  /\ r.has_data = exists
            /\ (r.status = "good") = exists
            /\ ~exists => r.status = "warning"
            /\ (r.status = "good" /\ r.has_data) \/ (r.status = "warning" /\ ~r.has_data)
            /\ EffectiveStatus(results, "helm") = "good"
            /\ pc = "done" => statuses[4] = "good"

\* C15 witness: a finished run over a directory whose first file is not JSON
\* and whose second reports an invalid chart.
C15_Witness ==
    /\ pc = "done"
    /\ reports_dir["helm-reports"] = Dir(<<NoiseFile(""), JsonFile("", HelmReport(FALSE))>>)
    /\ results["helm"].valid = CrossMark
    /\ results["helm"].status = "good"
    /\ results["helm"].has_data

\* C15, the other side: no directory, status 'warning', voted 'good'.
C15_AbsentReached ==
    /\ pc = "done"
    /\ ~reports_dir["helm-reports"].exists
    /\ results["helm"].status = "warning"
    /\ statuses[4] = "good"

(***************************************************************************)
(* Tools whose reports are absent.                                         *)
(***************************************************************************)
\* The directories a tool's normalizer reads.
DirsRead(tool) ==
    CASE tool = "sonarqube"  -> {"sonar-reports", "security-reports/raw-data/SonarQube"}
      [] tool = "trufflehog" -> {"trufflehog-reports"}
      [] tool = "clamav"     -> {"clamav-reports"}
      [] tool = "helm"       -> {"helm-reports"}
      [] tool = "checkov"    -> {"checkov-reports"}
      [] tool = "trivy"      -> {"trivy-reports"}
      [] tool = "grype"      -> {"grype-reports"}
      [] tool = "xeol"       -> {"xeol-reports"}

NoReports(tool) == \A d \in DirsRead(tool) : ~reports_dir[d].exists

\* C18: a tool none of whose directories exists has a status other than
\* 'critical' and is voted 'good'; over a root with no tool directory at all
\* the overall status is GOOD.
C18_AbsenceNotRisk ==
    /\ \A tool \in Tools :
          (results[tool] # Unset /\ NoReports(tool)) =>
              /\ results[tool].status # "critical"
              /\ EffectiveStatus(results, tool) = "good"
    /\ (pc = "done" /\ \A tool \in Tools : NoReports(tool)) =>
          overall.overall_status = "GOOD"

\* C18, the case that departs from it: over a root with no tool directory the
\* IaC summary is critical with a pass rate of 0 and the overall status is
\* CRITICAL.
C18_EmptyRootCritical ==
    /\ pc = "done"
    /\ \A tool \in Tools : NoReports(tool)
    /\ results["checkov"].status = "critical"
    /\ results["checkov"].pass_rate = 0
    /\ overall.overall_status = "CRITICAL"

\* Apart from the IaC tool, every tool without reports is voted 'good' and is
\* not critical.
C18_OtherToolsHold ==
    \A tool \in Tools \ {"checkov"} :
        (results[tool] # Unset /\ NoReports(tool)) =>
            /\ results[tool].status # "critical"
            /\ EffectiveStatus(results, tool) = "good"

(***************************************************************************)
(* The five normalizers that fold every file of their directory.           *)
(***************************************************************************)
XeolSamples ==
    {JsonFile("", XeolReport(1)),
     JsonFile("", XeolReport(2)),
     JsonFile("", Dict([descriptor |-> Str("xeol")])),
     EmptyFile(""),
     NoiseFile(""),
     MissingFile(""),
     LinesFile("", <<<<Atom(XeolReport(1))>>, <<Atom(XeolReport(1))>>>>)}

SummingTools == {"trufflehog", "grype", "trivy", "checkov", "xeol"}

SummingInit ==
    \/ InitWith("trufflehog-reports", DirsOf(TrufflehogSamples))
    \/ InitWith("grype-reports", DirsOf(GrypeSamples))
    \/ InitWith("trivy-reports", DirsOf(TrivySamples))
    \/ InitWith("checkov-reports", DirsOf(CheckovSamples))
    \/ InitWith("xeol-reports", DirsOf(XeolSamples))

SummingSpec == SummingInit /\ [][Next]_vars

DirOf(tool) == CHOOSE d \in DirsRead(tool) : TRUE

\* The summary a normalizer gives over a root.
Analyze(tool, root) ==
    CASE tool = "trufflehog" -> analyze_trufflehog_data(root)
      [] tool = "grype"      -> analyze_grype_data(root)
      [] tool = "trivy"      -> analyze_trivy_data(root)
      [] tool = "checkov"    -> analyze_checkov_data(root)
      [] tool = "xeol"       -> analyze_xeol_data(root)
      [] tool = "sonarqube"  -> analyze_sonarqube_data(root)
      [] tool = "clamav"     -> analyze_clamav_data(root)
      [] tool = "helm"       -> analyze_helm_data(root)

\* The counters of a summary.
Counters(tool, r) ==
    CASE tool = "trufflehog" -> <<r.total, r.verified, r.unverified>>
      [] tool = "grype"      -> <<r.total, r.sbom_files, r.severity_counts["critical"],
                                  r.severity_counts["high"], r.severity_counts["medium"],
                                  r.severity_counts["low"]>>
      [] tool = "trivy"      -> <<r.total, r.scanned_targets, r.severity_counts["CRITICAL"],
                                  r.severity_counts["HIGH"], r.severity_counts["MEDIUM"],
                                  r.severity_counts["LOW"]>>
      [] tool = "checkov"    -> <<r.passed, r.failed, r.skipped>>
      [] tool = "xeol"       -> <<r.eol_packages>>

\* The counters, with or without the number of detector types among them.
CountersOf(tool, r, types) ==
    IF types /\ tool = "trufflehog" THEN Counters(tool, r) \o <<r.detector_types>>
    ELSE Counters(tool, r)

\* The root in which the tool's directory holds the given files only.
RootWith(tool, files) == [EmptyTree EXCEPT ![DirOf(tool)] = Dir(files)]

RECURSIVE SumOver(_, _, _)
\* The sum, counter by counter, of what each file contributes on its own.
SumOver(tool, files, types) ==
    IF files = <<>> THEN CountersOf(tool, Analyze(tool, RootWith(tool, <<>>)), types)
    ELSE LET one == CountersOf(tool, Analyze(tool, RootWith(tool, <<Head(files)>>)), types)
             rest == SumOver(tool, Tail(files), types)
         IN  [i \in 1..Len(one) |-> one[i] + rest[i]]

\* The orders in which a listing can enumerate the files.
Orders(files) ==
    {[i \in 1..Len(files) |-> files[p[i]]] : p \in Permutations(1..Len(files))}

Summarised(tool) == results[tool] # Unset /\ reports_dir[DirOf(tool)].exists

\* C17 as stated: every counter of the five summaries, the number of detector
\* types included, is the sum of the contributions of the files.
C17_EveryCounterIsSum ==
    \A tool \in SummingTools :
        Summarised(tool) =>
            CountersOf(tool, results[tool], TRUE) =
                SumOver(tool, reports_dir[DirOf(tool)].files, TRUE)

\* C17 amended: every counter of the five summaries is the sum of the
\* contributions of the files (a file without value contributing zero), except
\* detector_types, which is the number of distinct detector names among the
\* findings of all files; the summary is the same for every order of the files.
C17_SumsAndMerge ==
    \A tool \in SummingTools :
        Summarised(tool) =>
            LET files == reports_dir[DirOf(tool)].files IN
            /\ CountersOf(tool, results[tool], FALSE) = SumOver(tool, files, FALSE)
            /\ \A other \in Orders(files) :
                  /\ ~Analyze(tool, RootWith(tool, other)).raised
                  /\ Summary(Analyze(tool, RootWith(tool, other))) = results[tool]
            /\ tool = "trufflehog" =>
                  results[tool].detector_types =
                      Cardinality({SecretEntries[i].f["DetectorName"] :
                                      i \in {j \in 1..Len(SecretEntries) :
                                                Recognized(SecretEntries[j])}})

\* C17 witness: two files with one finding of the same detector each: every
\* counter is the sum of the two, and one detector type is reported.
C17_Witness ==
    /\ results["trufflehog"] # Unset
    /\ Len(Glob(reports_dir["trufflehog-reports"], "", "json")) = 2
    /\ results["trufflehog"].total = 2
    /\ results["trufflehog"].verified = 2
    /\ results["trufflehog"].detector_types = 1

\* C17, the other tools: two files that both contribute are reached for each.
C17_TwoFilesEach ==
    /\ pc = "done"
    /\ \/ results["xeol"].eol_packages = 3
       \/ results["checkov"].passed = 9
       \/ results["grype"].total = 5
       \/ results["trivy"].total = 6

(***************************************************************************)
(* A second run of the pipeline, over the same tree or over the tree with  *)
(* the files of one directory enumerated in another order.                 *)
(***************************************************************************)
RunAgain ==
    /\ pc = "done"
    /\ previous = NoRun
    /\ previous' = [reports_dir |-> reports_dir, results |-> results, overall |-> overall]
    /\ \E d \in DOMAIN reports_dir :
       \E listing \in Orders(reports_dir[d].files) :
          reports_dir' = [reports_dir EXCEPT ![d].files = listing]
    /\ pc' = "sonarqube"
    /\ results' = [tool \in Tools |-> Unset]
    /\ statuses' = <<>>
    /\ overall' = NoOverall
    /\ UNCHANGED <<file_path, loaded>>

RerunInit ==
    \/ SummingInit
    \/ InitWith("sonar-reports", DirsOf(SonarSamples))
    \/ InitWith("clamav-reports", DirsOf(ClamavSamples))
    \/ InitWith("helm-reports", DirsOf(HelmSamples))

RerunNext == Next \/ RunAgain

RerunSpec == RerunInit /\ [][RerunNext]_vars

\* The tree in which only the directories the tool reads are left.
OwnTree(tool) ==
    [d \in DOMAIN reports_dir |-> IF d \in DirsRead(tool) THEN reports_dir[d] ELSE AbsentDir]

\* C16 as stated: a second run gives the eight summaries and the overall
\* status of the first, in whatever order the listing enumerates the files.
C16_SameResultAgain ==
    (previous # NoRun /\ pc = "done") =>
        /\ results = previous.results
        /\ overall = previous.overall

\* C16 amended: a second run over the unchanged tree, its files enumerated in
\* the same order, ends and gives the eight summaries and the overall status of
\* the first; each summary is the one its normalizer gives over its own
\* directories alone; the summaries of the five summing normalizers are the
\* same for every order of the files.
C16_Rerun ==
    previous # NoRun =>
        /\ reports_dir = previous.reports_dir =>
              /\ pc # "aborted"
              /\ \A tool \in Tools :
                    results[tool] # Unset => results[tool] = previous.results[tool]
              /\ pc = "done" => overall = previous.overall
        /\ \A tool \in Tools :
              results[tool] # Unset =>
                  results[tool] = Summary(Analyze(tool, OwnTree(tool)))
        /\ \A tool \in SummingTools :
              results[tool] # Unset => results[tool] = previous.results[tool]

\* C16 witness: a second run has ended over a directory of two IaC reports
\* enumerated in the other order, with the result of the first.
C16_Witness ==
    /\ previous # NoRun
    /\ pc = "done"
    /\ reports_dir # previous.reports_dir
    /\ results["checkov"].passed = 9
    /\ results = previous.results

\* C16, the case that departs from it: with the two chart-validation reports
\* enumerated in the other order the second run reports another validity.
C16_ListingOrderShows ==
    /\ previous # NoRun
    /\ pc = "done"
    /\ results["helm"].valid # previous.results["helm"].valid

====
